---- MODULE Spec2Model ----
(***************************************************************************)
(* A model of the Russian GCSE tutor: the App component (message log,      *)
(* send path, recognition-driven auto-send) and the /api/chat endpoint     *)
(* (fence stripping, JSON repair, error responses).                        *)
(*                                                                         *)
(* Texts are sequences of characters so that trim() is computed.  One      *)
(* action models one event handler together with the render and the        *)
(* effects React runs after it.  A callback created in a render (the       *)
(* auto-send timer) carries the values of that render: its closure.        *)
(***************************************************************************)
EXTENDS Naturals, Sequences, FiniteSets

VARIABLES
  messages,       \* App.tsx:22   the message log
  input,          \* App.tsx:23   the pending input
  level,          \* App.tsx:24   the current level
  loading,        \* App.tsx:26   the in-flight flag
  error,          \* App.tsx:27   the error value
  hasStarted,     \* App.tsx:28
  wasListeningRef,\* App.tsx:30   the auto-send arm flag
  transcript,     \* App.tsx:48   recognition transcript
  listening,      \* App.tsx:49   recognition listening flag
  browserSupportsSpeechRecognition, \* App.tsx:51
  engine,         \* the platform recogniser behind the hook: off, on, stopping
  timer,          \* App.tsx:78   the pending auto-send timeout and its closure
  timeouts,       \* the timeouts of App.tsx:78 the browser holds, oldest first
  mounted,        \* the App component is mounted
  calls,          \* every fetch('/api/chat') made so far: its kind and status
  lastReq,        \* the body of the latest fetch, and the log right after it was made
  nSessions,      \* recognition sessions started so far
  nResults,       \* results delivered in the current session
  cycleFires,     \* times the auto-send timer fired since the last start
  cycleSends,     \* sends the timer's callback got accepted since the last start
  nLevels,        \* level changes made so far
  ePc,            \* endpoint: idle, calling, done
  eReq,           \* endpoint: the request being served
  eBackend,       \* endpoint: what the generative backend answers to the fetch
  eResp,          \* endpoint: the Response returned
  eFetches,       \* endpoint: backend fetches made for the current request
  ePrompt,        \* endpoint: promptContext and speedRecommendation chosen
  allVoices,      \* useSpeech.ts:32  what speechSynthesis.getVoices() returns
  voices,         \* useSpeech.ts:24  the Russian voices
  selectedVoice,  \* useSpeech.ts:25
  speaking,       \* useSpeech.ts:26  the playback flag
  queue,          \* the utterances held by window.speechSynthesis
  pendingEnds,    \* end/error events of cancelled utterances not yet delivered
  speakTimers,    \* App.tsx:124,198  pending auto-play timeouts, oldest first
  nSpeaks,        \* speak calls made so far
  nRefresh,       \* voiceschanged signals so far
  speechLog       \* synthesis errors and stop() calls so far

appVars == <<messages, input, level, loading, error, hasStarted, wasListeningRef,
             transcript, listening, browserSupportsSpeechRecognition, engine,
             timer, timeouts, mounted, calls, lastReq, nSessions, nResults,
             cycleFires, cycleSends, nLevels>>
endpointVars == <<ePc, eReq, eBackend, eResp, eFetches, ePrompt>>
speechVars == <<allVoices, voices, selectedVoice, speaking, queue, pendingEnds,
                speakTimers, nSpeaks, nRefresh, speechLog>>
vars == <<appVars, endpointVars, speechVars>>

----------------------------------------------------------------------------
(* Bounds of the model *)
MaxCalls == 3
MaxSessions == 2
MaxResults == 2
MaxLevelChanges == 1

----------------------------------------------------------------------------
(* Texts *)
Null == <<"null">>
IsSpace(c) == c = " "

RECURSIVE TrimStart(_)
TrimStart(s) ==
  IF s # <<>> /\ IsSpace(Head(s)) THEN TrimStart(Tail(s)) ELSE s

RECURSIVE TrimEnd(_)
TrimEnd(s) ==
  IF s # <<>> /\ IsSpace(s[Len(s)]) THEN TrimEnd(SubSeq(s, 1, Len(s) - 1)) ELSE s

Trim(s) == TrimEnd(TrimStart(s))

Texts == { <<>>, <<" ">>, <<"a">>, <<"b", " ">> }
Levels == {"beginner", "foundation", "higher"}

(* The `data` a successful fetch of /api/chat yields to the client *)
Datas ==
  { [russian |-> <<"p">>, content |-> Null, english_feedback |-> Null,
     transliteration |-> <<"t">>, topic_alignment |-> <<"i">>] }
Errors == {"Server error: 500"}
NoError == "none"
Unsupported == "Your browser does not support speech recognition."
Privet == <<"P">>
Izvinite == <<"I">>

Falsy(v) == v = Null \/ v = <<>>
Or(a, b) == IF Falsy(a) THEN b ELSE a

NoTimer == [armed |-> FALSE]

(* Voices: a name is a sequence of words, a language tag a sequence of     *)
(* characters.  Rates are in hundredths.                                   *)
NoVoice == [name |-> <<>>, lang |-> <<>>]
speechRates == [beginner |-> 75, foundation |-> 90, higher |-> 110]

UserMessage(text) ==
  [role |-> "user", content |-> Trim(text), feedback |-> Null,
   transliteration |-> Null, topic |-> Null]

WelcomeMessage(data) ==
  [role |-> "assistant", content |-> Or(data.russian, Privet),
   feedback |-> Or(data.english_feedback, Null),
   transliteration |-> Or(data.transliteration, Null),
   topic |-> Or(data.topic_alignment, Null)]

AssistantMessage(data) ==
  [role |-> "assistant",
   content |-> Or(data.russian, Or(data.content, Izvinite)),
   feedback |-> Or(data.english_feedback, Null),
   transliteration |-> Or(data.transliteration, Null),
   topic |-> Or(data.topic_alignment, Null)]

RECURSIVE RoleContent(_)
RoleContent(ms) ==
  IF ms = <<>> THEN <<>>
  ELSE <<[role |-> Head(ms).role, content |-> Head(ms).content]>>
         \o RoleContent(Tail(ms))

(* The values of the render a callback was created in *)
Closure(inp, msgs, lvl, tr) ==
  [armed |-> TRUE, input |-> inp, messages |-> msgs, level |-> lvl,
   transcript |-> tr, voice |-> selectedVoice]
CurrentClosure == Closure(input, messages, level, transcript)

InFlight == { i \in 1..Len(calls) : calls[i].status = "inflight" }

\* if (data.russian && hasVoice) setTimeout(() => speak(data.russian), 300):
\* hasVoice and speak are those of the render the call was made in
AutoPlay(call, data) ==
  IF ~Falsy(data.russian) /\ call.voice # NoVoice
  THEN Append(speakTimers, [text |-> data.russian, voice |-> call.voice,
                            rate |-> speechRates[call.level]])
  ELSE speakTimers

----------------------------------------------------------------------------
(* Effects run after a render with listening = lis, transcript = tr,       *)
(* input = inp, messages = msgs, level = lvl; wl is the arm flag then.     *)

\* "Update input field when transcript changes"
TranscriptEffect(tr, inp) ==
  IF tr # transcript /\ tr # <<>> THEN tr ELSE inp

\* "AUTO-SEND after speech recognition stops": the arm flag after the effect
AutoSendFlag(lis, tr, wl) ==
  IF lis # listening \/ tr # transcript THEN (wl \/ lis) ELSE wl

AutoSendTimerNoCleanup(lis, tr, inp, msgs, lvl, wl, old) ==
  IF (lis # listening \/ tr # transcript)
       /\ (wl \/ lis) /\ ~lis /\ Trim(tr) # <<>>
  THEN Closure(inp, msgs, lvl, tr)
  ELSE old

\* the timer pending after the effect (its cleanup clears the previous one)
AutoSendTimer(lis, tr, inp, msgs, lvl, wl, old) ==
  IF lis # listening \/ tr # transcript
  THEN IF (wl \/ lis) /\ ~lis /\ Trim(tr) # <<>>
       THEN Closure(inp, msgs, lvl, tr)
       ELSE NoTimer
  ELSE old

\* clearTimeout(t): the browser drops the timeout t, if it still holds it
RECURSIVE ClearTimeout(_, _)
ClearTimeout(ts, t) ==
  IF ts = <<>> THEN <<>>
  ELSE IF Head(ts) = t THEN Tail(ts)
  ELSE <<Head(ts)>> \o ClearTimeout(Tail(ts), t)

CleanupNothing(old, ts) == ts

\* return () => clearTimeout(timer): returned by the effect run that armed
\* the timer old, run by React before the next effect run and at unmount
Cleanup(old, ts) == IF old.armed THEN ClearTimeout(ts, old) ELSE ts

\* the timeouts the browser holds after the effect, ts being those it held
AutoSendTimeouts(lis, tr, inp, msgs, lvl, wl, old, ts) ==
  IF lis # listening \/ tr # transcript
  THEN IF (wl \/ lis) /\ ~lis /\ Trim(tr) # <<>>
       THEN Append(Cleanup(old, ts), Closure(inp, msgs, lvl, tr))
       ELSE Cleanup(old, ts)
  ELSE ts

Commit(lis, tr, inp, msgs, lvl, wl, old, ts) ==
  /\ listening' = lis
  /\ transcript' = tr
  /\ messages' = msgs
  /\ level' = lvl
  /\ input' = TranscriptEffect(tr, inp)
  /\ wasListeningRef' = AutoSendFlag(lis, tr, wl)
  /\ timer' = AutoSendTimer(lis, tr, inp, msgs, lvl, wl, old)
  /\ timeouts' = AutoSendTimeouts(lis, tr, inp, msgs, lvl, wl, old, ts)

----------------------------------------------------------------------------
(* startConversation *)
StartShownAlways == TRUE

\* {!hasStarted ? (welcome screen with the Start button) : (<Chat />)}
StartShown == ~hasStarted

\* Start button: disabled={loading}
StartConversation ==
  /\ mounted
  /\ StartShown /\ ~loading
  /\ Len(calls) < MaxCalls
  /\ hasStarted' = TRUE
  /\ loading' = TRUE
  /\ calls' = Append(calls, [kind |-> "start", status |-> "inflight",
                               level |-> level, voice |-> selectedVoice])
  /\ lastReq' = [messages |-> <<>>, userLevel |-> level, logAfter |-> messages]
  /\ UNCHANGED <<messages, input, level, error, mounted, wasListeningRef,
                 transcript, listening, browserSupportsSpeechRecognition,
                 engine, timer, timeouts, nSessions, nResults, cycleFires,
                 cycleSends, nLevels>>
  /\ UNCHANGED endpointVars
  /\ UNCHANGED speechVars

FinallyLoadingStuck == loading

\* finally { setLoading(false) }
FinallyLoading == FALSE

StartConversationOk(i, data) ==
  /\ mounted
  /\ i \in InFlight /\ calls[i].kind = "start"
  /\ messages' = <<WelcomeMessage(data)>>
  /\ loading' = FinallyLoading
  /\ calls' = [calls EXCEPT ![i].status = "ok"]
  /\ speakTimers' = AutoPlay(calls[i], data)
  /\ UNCHANGED <<allVoices, voices, selectedVoice, speaking, queue,
                 pendingEnds, nSpeaks, nRefresh, speechLog>>
  /\ UNCHANGED <<lastReq, input, level, error, hasStarted, mounted, wasListeningRef, transcript,
                 listening, browserSupportsSpeechRecognition, engine, timer, timeouts,
                 nSessions, nResults, cycleFires, cycleSends, nLevels>>
  /\ UNCHANGED endpointVars

StartConversationFail(i, e) ==
  /\ mounted
  /\ i \in InFlight /\ calls[i].kind = "start"
  /\ error' = e
  /\ loading' = FinallyLoading
  /\ calls' = [calls EXCEPT ![i].status = "fail"]
  /\ UNCHANGED <<lastReq, messages, input, level, hasStarted, mounted, wasListeningRef,
                 transcript, listening, browserSupportsSpeechRecognition,
                 engine, timer, timeouts, nSessions, nResults, cycleFires, cycleSends, nLevels>>
  /\ UNCHANGED endpointVars
  /\ UNCHANGED speechVars

----------------------------------------------------------------------------
RejectedIfEmpty(text) == text = <<>>

\* if (!input.trim()) return
Rejected(text) == Trim(text) = <<>>

(* sendMessage, called with the closure c of the render that created the   *)
(* caller; wl and old are the arm flag and the pending timer it leaves,    *)
(* ts the timeouts the browser holds then.                                 *)
SendMessage(c, wl, old, ts) ==
  IF Rejected(c.input)
  THEN /\ wasListeningRef' = wl
       /\ timer' = old
       /\ timeouts' = ts
       /\ UNCHANGED <<messages, input, level, loading, error, transcript,
                      listening, calls, lastReq>>
  ELSE /\ Len(calls) < MaxCalls
       /\ Commit(listening, <<>>, <<>>,
                 Append(messages, UserMessage(c.input)), level, wl, old, ts)
       /\ loading' = TRUE
       /\ error' = NoError
       /\ calls' = Append(calls, [kind |-> "send", status |-> "inflight",
                                    level |-> c.level, voice |-> c.voice])
       /\ lastReq' =
            [messages |-> Append(RoleContent(c.messages),
                                 [role |-> "user", content |-> Trim(c.input)]),
             userLevel |-> c.level,
             logAfter |-> Append(messages, UserMessage(c.input))]

\* Send button: disabled={loading || !input.trim() || listening}
ClickSend ==
  /\ mounted
  /\ hasStarted /\ ~loading /\ Trim(input) # <<>> /\ ~listening
  /\ SendMessage(CurrentClosure, wasListeningRef, timer, timeouts)
  /\ UNCHANGED <<hasStarted, mounted, browserSupportsSpeechRecognition, engine,
                 nSessions, nResults, cycleFires, cycleSends, nLevels>>
  /\ UNCHANGED endpointVars
  /\ UNCHANGED speechVars

\* Enter key in the textarea: disabled={loading || listening}
HandleKeyPress ==
  /\ mounted
  /\ hasStarted /\ ~loading /\ ~listening
  /\ SendMessage(CurrentClosure, wasListeningRef, timer, timeouts)
  /\ UNCHANGED <<hasStarted, mounted, browserSupportsSpeechRecognition, engine,
                 nSessions, nResults, cycleFires, cycleSends, nLevels>>
  /\ UNCHANGED endpointVars
  /\ UNCHANGED speechVars

\* A timeout the browser holds fires: sendMessage of its render, then the
\* arm flag is cleared.  The browser has dropped the timeout by then, and
\* the effect's cleanup, if it names this timeout, has nothing left to clear.
TimerFire ==
  /\ \E k \in DOMAIN timeouts :
       LET c == timeouts[k]
           held == SubSeq(timeouts, 1, k - 1)
                     \o SubSeq(timeouts, k + 1, Len(timeouts))
           left == IF timer = c THEN NoTimer ELSE timer
       IN IF Trim(c.transcript) # <<>>
          THEN /\ SendMessage(c, FALSE, left, held)
               /\ cycleSends' = cycleSends + (Len(calls') - Len(calls))
          ELSE /\ timer' = left
               /\ timeouts' = held
               /\ UNCHANGED <<messages, input, level, loading, error,
                              transcript, listening, calls, lastReq,
                              wasListeningRef, cycleSends>>
  /\ cycleFires' = cycleFires + 1
  /\ UNCHANGED <<hasStarted, mounted, browserSupportsSpeechRecognition, engine,
                 nSessions, nResults, nLevels>>
  /\ UNCHANGED endpointVars
  /\ UNCHANGED speechVars

SendMessageOk(i, data) ==
  /\ mounted
  /\ i \in InFlight /\ calls[i].kind = "send"
  /\ messages' = Append(messages, AssistantMessage(data))
  /\ loading' = FinallyLoading
  /\ calls' = [calls EXCEPT ![i].status = "ok"]
  /\ speakTimers' = AutoPlay(calls[i], data)
  /\ UNCHANGED <<allVoices, voices, selectedVoice, speaking, queue,
                 pendingEnds, nSpeaks, nRefresh, speechLog>>
  /\ UNCHANGED <<lastReq, input, level, error, hasStarted, mounted, wasListeningRef, transcript,
                 listening, browserSupportsSpeechRecognition, engine, timer, timeouts,
                 nSessions, nResults, cycleFires, cycleSends, nLevels>>
  /\ UNCHANGED endpointVars

SendMessageFail(i, e) ==
  /\ mounted
  /\ i \in InFlight /\ calls[i].kind = "send"
  /\ error' = e
  /\ loading' = FinallyLoading
  /\ calls' = [calls EXCEPT ![i].status = "fail"]
  /\ UNCHANGED <<lastReq, messages, input, level, hasStarted, mounted, wasListeningRef,
                 transcript, listening, browserSupportsSpeechRecognition,
                 engine, timer, timeouts, nSessions, nResults, cycleFires, cycleSends, nLevels>>
  /\ UNCHANGED endpointVars
  /\ UNCHANGED speechVars

----------------------------------------------------------------------------
(* Microphone button: disabled={!browserSupportsSpeechRecognition || loading} *)
KeptTranscript == transcript

\* resetTranscript()
ResetTranscript == <<>>

MicDisabledWhileLoading == loading

\* disabled={!browserSupportsSpeechRecognition || loading}
MicDisabled == ~browserSupportsSpeechRecognition \/ loading

ToggleListening ==
  /\ mounted
  /\ hasStarted /\ ~MicDisabled
  /\ IF listening
     THEN /\ Commit(FALSE, transcript, input, messages, level,
                    wasListeningRef, timer, timeouts)
          /\ engine' = "stopping"
          /\ UNCHANGED <<nSessions, nResults, cycleFires, cycleSends>>
     ELSE /\ nSessions < MaxSessions
          /\ Commit(TRUE, ResetTranscript, <<>>, messages, level,
                    wasListeningRef, timer, timeouts)
          /\ engine' = "on"
          /\ nSessions' = nSessions + 1
          /\ nResults' = 0
          /\ cycleFires' = 0
          /\ cycleSends' = 0
  /\ UNCHANGED <<lastReq, loading, error, hasStarted, mounted, browserSupportsSpeechRecognition,
                 calls, nLevels>>
  /\ UNCHANGED endpointVars
  /\ UNCHANGED speechVars

(* The recogniser delivers a result: while listening, or after a manual    *)
(* stop until the recogniser has ended.                                    *)
RecognitionResult(t) ==
  /\ mounted
  /\ engine # "off"
  /\ nResults < MaxResults
  /\ t # transcript /\ t # <<>>
  /\ Commit(listening, t, input, messages, level, wasListeningRef, timer,
            timeouts)
  /\ nResults' = nResults + 1
  /\ UNCHANGED <<lastReq, loading, error, hasStarted, mounted, browserSupportsSpeechRecognition,
                 engine, calls, nSessions, cycleFires, cycleSends, nLevels>>
  /\ UNCHANGED endpointVars
  /\ UNCHANGED speechVars

(* The recogniser ends: by silence detection, or after a manual stop *)
RecognitionEnd ==
  /\ mounted
  /\ engine # "off"
  /\ engine' = "off"
  /\ Commit(FALSE, transcript, input, messages, level, wasListeningRef, timer,
            timeouts)
  /\ UNCHANGED <<lastReq, loading, error, hasStarted, mounted, browserSupportsSpeechRecognition,
                 calls, nSessions, nResults, cycleFires, cycleSends, nLevels>>
  /\ UNCHANGED endpointVars
  /\ UNCHANGED speechVars

\* textarea onChange: disabled={loading || listening}
TypeInput(t) ==
  /\ mounted
  /\ hasStarted /\ ~loading /\ ~listening
  /\ t # input
  /\ input' = t
  /\ UNCHANGED <<lastReq, messages, level, loading, error, hasStarted, mounted, wasListeningRef,
                 transcript, listening, browserSupportsSpeechRecognition,
                 engine, timer, timeouts, calls, nSessions, nResults, cycleFires, cycleSends, nLevels>>
  /\ UNCHANGED endpointVars
  /\ UNCHANGED speechVars

SetLevelResetting(lvl) ==
  /\ mounted
  /\ lvl # level
  /\ nLevels < MaxLevelChanges
  /\ level' = lvl
  /\ nLevels' = nLevels + 1
  /\ input' = <<>>
  /\ UNCHANGED <<lastReq, messages, loading, error, hasStarted, mounted, wasListeningRef,
                 transcript, listening, browserSupportsSpeechRecognition,
                 engine, timer, timeouts, calls, nSessions, nResults, cycleFires,
                 cycleSends>>
  /\ UNCHANGED endpointVars
  /\ UNCHANGED speechVars

\* level selector: onClick={() => setLevel(lvl)}
SetLevel(lvl) ==
  /\ mounted
  /\ lvl # level
  /\ nLevels < MaxLevelChanges
  /\ level' = lvl
  /\ nLevels' = nLevels + 1
  /\ UNCHANGED <<lastReq, messages, input, loading, error, hasStarted, mounted, wasListeningRef,
                 transcript, listening, browserSupportsSpeechRecognition,
                 engine, timer, timeouts, calls, nSessions, nResults, cycleFires,
                 cycleSends>>
  /\ UNCHANGED endpointVars
  /\ UNCHANGED speechVars

\* The component is torn down: React runs the cleanup the last effect run
\* returned; no handler of the component runs afterwards.
Unmount ==
  /\ mounted
  /\ mounted' = FALSE
  /\ timeouts' = Cleanup(timer, timeouts)
  /\ timer' = NoTimer
  /\ UNCHANGED <<messages, input, level, loading, error, hasStarted,
                 wasListeningRef, transcript, listening,
                 browserSupportsSpeechRecognition, engine, calls, lastReq,
                 nSessions, nResults, cycleFires, cycleSends, nLevels>>
  /\ UNCHANGED endpointVars
  /\ UNCHANGED speechVars

----------------------------------------------------------------------------
(* The /api/chat endpoint (onRequestPost).                                 *)
(* The backend's text is a sequence of tokens: "BT" is a ``` fence, "JS"   *)
(* the word json, "NL" a newline, "SP" a blank, "X" prose, "V4" a complete *)
(* 4-field object literal, "VN" a JSON number, "VP" an object literal with *)
(* only the russian field, and "QL" ... "QR" the 4-field object literal    *)
(* whose russian string holds the tokens in between.                       *)

MaxBodyLen == 3

BodyTokens == {"X", "V4", "VN", "VP", "QL", "QR", "BT", "SP"}
Prefixes ==
  { <<>>, <<"BT">>, <<"BT", "JS">>, <<"BT", "NL">>, <<"BT", "JS", "NL">>,
    <<"NL", "BT", "JS", "NL">> }
Suffixes == { <<>>, <<"BT">>, <<"NL", "BT">>, <<"NL", "BT", "NL">> }

RECURSIVE SeqsUpTo(_, _)
SeqsUpTo(S, n) ==
  IF n = 0 THEN { <<>> }
  ELSE LET shorter == SeqsUpTo(S, n - 1)
       IN shorter \cup { Append(q, x) : q \in shorter, x \in S }

Bodies == SeqsUpTo(BodyTokens, MaxBodyLen)

AllKeys == {"russian", "english_feedback", "transliteration", "topic_alignment"}

\* a JSON value: its kind, the keys it has, and the TutorResponse fields
Json(kind, keys, rus, fb, tl, topic) ==
  [kind |-> kind, keys |-> keys, russian |-> rus, english_feedback |-> fb,
   transliteration |-> tl, topic_alignment |-> topic]

NoBody == Json("none", {}, Null, Null, Null, Null)
ErrorBody(keys) == Json("error", keys, Null, Null, Null, Null)

\* responseText.replace(/```json\n?|\n?```/g, '')
RECURSIVE StripFences(_)
StripFences(s) ==
  IF s = <<>> THEN <<>>
  ELSE IF s[1] = "BT" /\ Len(s) >= 2 /\ s[2] = "JS"
       THEN IF Len(s) >= 3 /\ s[3] = "NL"
            THEN StripFences(SubSeq(s, 4, Len(s)))
            ELSE StripFences(SubSeq(s, 3, Len(s)))
  ELSE IF s[1] = "NL" /\ Len(s) >= 2 /\ s[2] = "BT"
       THEN StripFences(SubSeq(s, 3, Len(s)))
  ELSE IF s[1] = "BT"
       THEN StripFences(Tail(s))
  ELSE <<s[1]>> \o StripFences(Tail(s))

IsWhite(c) == c \in {"SP", "NL"}

RECURSIVE TrimWhiteStart(_)
TrimWhiteStart(s) ==
  IF s # <<>> /\ IsWhite(Head(s)) THEN TrimWhiteStart(Tail(s)) ELSE s

RECURSIVE TrimWhiteEnd(_)
TrimWhiteEnd(s) ==
  IF s # <<>> /\ IsWhite(s[Len(s)])
  THEN TrimWhiteEnd(SubSeq(s, 1, Len(s) - 1))
  ELSE s

\* String.prototype.trim on the backend's text
TrimWhite(s) == TrimWhiteEnd(TrimWhiteStart(s))

CleanedText(responseText) == TrimWhite(StripFences(responseText))

StringTokens == {"X", "SP", "BT", "JS"}

\* JSON.parse: <<TRUE, value>>, or <<FALSE, NoBody>> for a SyntaxError
JsonParse(s) ==
  LET t == TrimWhite(s)
  IN IF t = <<"V4">>
     THEN <<TRUE, Json("object", AllKeys, <<"X">>, Null, <<"X">>, <<"X">>)>>
     ELSE IF t = <<"VN">>
     THEN <<TRUE, Json("number", {}, Null, Null, Null, Null)>>
     ELSE IF t = <<"VP">>
     THEN <<TRUE, Json("object", {"russian"}, <<"X">>, Null, Null, Null)>>
     ELSE IF /\ Len(t) >= 2
             /\ t[1] = "QL"
             /\ t[Len(t)] = "QR"
             /\ \A k \in 2..(Len(t) - 1) : t[k] \in StringTokens
     THEN <<TRUE, Json("object", AllKeys, SubSeq(t, 2, Len(t) - 1),
                       Null, Null, Null)>>
     ELSE <<FALSE, NoBody>>

FallbackCleaned(responseText) ==
  Json("object", AllKeys, CleanedText(responseText), Null, Null, Null)

\* the catch (parseError) fallback
Fallback(responseText) ==
  Json("object", AllKeys, responseText, Null, Null, Null)

\* let parsedResponse: try { JSON.parse(cleanedText) } catch { fallback }
ParsedResponse(responseText) ==
  LET r == JsonParse(CleanedText(responseText))
  IN IF r[1] THEN r[2] ELSE Fallback(responseText)

\* what the generative backend can answer to the fetch
BackendOk(t) == [kind |-> "ok", text |-> t]
BackendFailures ==
  { [kind |-> "notok", text |-> <<>>], [kind |-> "throw", text |-> <<>>] }

TryThrowsOnParse(b) ==
  b.kind # "ok" \/ ~JsonParse(CleanedText(b.text))[1]

\* whether the outer try block throws: fetch rejects, or !geminiResponse.ok
TryThrows(b) == b.kind # "ok"

CatchResponseDegraded ==
  [status |-> 200, body |-> Json("object", AllKeys, <<>>, Null, Null, Null)]

\* the outer catch: status 500, { error, details }
CatchResponse == [status |-> 500, body |-> ErrorBody({"error", "details"})]

\* the Response the handler returns for a backend outcome
ResponseFor(b) ==
  IF TryThrows(b)
  THEN CatchResponse
  ELSE [status |-> 200, body |-> ParsedResponse(b.text)]

\* userLevel values a request body may hold; the type names the first three
RequestLevels == Levels \cup {"expert"}

\* lengths of the request's message history
HistoryLengths == {0, 1}

NoPrompt == [context |-> "", speed |-> 0]

PromptAlwaysHigher(userLevel) == [context |-> "HIGHER", speed |-> 110]

\* promptContext and speedRecommendation (in hundredths):
\* if (userLevel === 'beginner') ... else if (... 'foundation') ... else
Prompt(userLevel) ==
  IF userLevel = "beginner" THEN [context |-> "BEGINNER", speed |-> 75]
  ELSE IF userLevel = "foundation" THEN [context |-> "FOUNDATION", speed |-> 90]
  ELSE [context |-> "HIGHER", speed |-> 110]

\* the request arrives: OPTIONS, missing key, or the backend is called
OnRequest(method, hasKey, lvl, history) ==
  /\ ePc = "idle"
  /\ eReq' = [method |-> method, hasKey |-> hasKey, userLevel |-> lvl,
              history |-> history]
  /\ ePrompt' = IF method # "OPTIONS" /\ hasKey THEN Prompt(lvl) ELSE NoPrompt
  /\ UNCHANGED eBackend
  /\ IF method = "OPTIONS"
     THEN /\ ePc' = "done"
          /\ eResp' = [status |-> 200, body |-> NoBody]
          /\ eFetches' = 0
     ELSE IF ~hasKey
     THEN /\ ePc' = "done"
          /\ eResp' = [status |-> 500, body |-> ErrorBody({"error"})]
          /\ eFetches' = 0
     ELSE /\ ePc' = "calling"
          /\ eResp' = [status |-> 0, body |-> NoBody]
          /\ eFetches' = 1
  /\ UNCHANGED appVars
  /\ UNCHANGED speechVars

\* the backend fetch settles and the handler returns its Response
OnBackend ==
  /\ ePc = "calling"
  /\ eResp' = ResponseFor(eBackend)
  /\ ePc' = "done"
  /\ UNCHANGED <<eReq, eBackend, eFetches, ePrompt>>
  /\ UNCHANGED appVars
  /\ UNCHANGED speechVars

----------------------------------------------------------------------------
(* Speech synthesis: hooks/useSpeech.ts, the Play Audio button of          *)
(* components/Chat.tsx and the platform's speechSynthesis queue.           *)

MaxSpeaks == 2
MaxRefresh == 1
MaxVoices == 3
MaxErrors == 1
MaxStops == 1

Ru == <<"r", "u">>
RuRU == <<"r", "u", "-", "R", "U">>
EnUS == <<"e", "n", "-", "U", "S">>

Voice(name, lang) == [name |-> name, lang |-> lang]

\* String.prototype.toLowerCase, word by word
ToLowerCase(w) ==
  CASE w = "Google" -> "google"
    [] w = "MICROSOFT" -> "microsoft"
    [] w = "Yandex" -> "yandex"
    [] w = "Irina" -> "irina"
    [] w = "Pavel" -> "pavel"
    [] w = "Milena" -> "milena"
    [] w = "YURI" -> "yuri"
    [] OTHER -> w

\* v.name.toLowerCase().includes(keyword)
Includes(name, keyword) ==
  \E k \in 1..Len(name) : ToLowerCase(name[k]) = keyword

\* voice.lang.startsWith('ru')
StartsWithRu(lang) == Len(lang) >= 2 /\ SubSeq(lang, 1, 2) = Ru

IsRussian(v) == StartsWithRu(v.lang)

\* allVoices.filter(voice => voice.lang.startsWith('ru'))
RussianVoices(all) == SelectSeq(all, IsRussian)

\* the rules of the selection heuristic, in the order they are tried
Keywords ==
  <<"google", "microsoft", "yandex", "irina", "pavel", "milena", "yuri">>

\* russianVoices.find(v => v.name.toLowerCase().includes(keyword));
\* NoVoice stands for undefined
RECURSIVE Find(_, _)
Find(vs, keyword) ==
  IF vs = <<>> THEN NoVoice
  ELSE IF Includes(Head(vs).name, keyword) THEN Head(vs)
  ELSE Find(Tail(vs), keyword)

PreferredFirst(vs, k) == vs[1]

\* find(google) || find(microsoft) || ... || russianVoices[0], from rule k on
RECURSIVE PreferredFrom(_, _)
PreferredFrom(vs, k) ==
  IF k > Len(Keywords) THEN vs[1]
  ELSE IF Find(vs, Keywords[k]) # NoVoice THEN Find(vs, Keywords[k])
  ELSE PreferredFrom(vs, k + 1)

PreferredVoice(vs) == PreferredFrom(vs, 1)

\* loadVoices: the voice selected after it ran on the platform's list
LoadVoices(all, selected) ==
  IF Len(RussianVoices(all)) > 0
  THEN PreferredVoice(RussianVoices(all))
  ELSE selected

\* the voices the platform may offer
Voices ==
  { Voice(<<"Google", "x">>, RuRU), Voice(<<"x", "MICROSOFT">>, RuRU),
    Voice(<<"Yandex">>, Ru), Voice(<<"Pavel">>, RuRU),
    Voice(<<"YURI", "y">>, RuRU), Voice(<<"x">>, RuRU),
    Voice(<<"y">>, Ru), Voice(<<"Google">>, EnUS) }

VoiceLists == SeqsUpTo(Voices, MaxVoices)

\* the lists offered while the conversation runs
TutorVoiceLists == { <<>>, <<Voice(<<"Google", "x">>, RuRU)>> }

\* window.speechSynthesis.onvoiceschanged = loadVoices
VoicesChanged(all) ==
  /\ nRefresh < MaxRefresh
  /\ all # allVoices
  /\ nRefresh' = nRefresh + 1
  /\ allVoices' = all
  /\ voices' = RussianVoices(all)
  /\ selectedVoice' = LoadVoices(all, selectedVoice)
  /\ UNCHANGED <<speaking, queue, pendingEnds, speakTimers, nSpeaks,
                 speechLog>>
  /\ UNCHANGED appVars
  /\ UNCHANGED endpointVars

\* new SpeechSynthesisUtterance(text) with voice, rate; id, level and
\* afterSetLevel record when the speak call ran
Utterance(text, voice, rate) ==
  [id |-> nSpeaks + 1, text |-> text, voice |-> voice, rate |-> rate,
   started |-> FALSE, level |-> level, afterSetLevel |-> nLevels > 0]

CancelNothing(q) == q

\* window.speechSynthesis.cancel(): every utterance leaves the queue
Cancel(q) == <<>>

SpeakUnguarded(voice) == FALSE

\* if (!selectedVoice) return
NoVoiceSelected(voice) == voice = NoVoice

\* speak(text) of a render whose selectedVoice and rate are voice and rate
Speak(voice, rate, text) ==
  /\ nSpeaks < MaxSpeaks
  /\ nSpeaks' = nSpeaks + 1
  /\ IF NoVoiceSelected(voice)
     THEN UNCHANGED <<queue, pendingEnds>>
     ELSE /\ queue' = Append(Cancel(queue), Utterance(text, voice, rate))
          /\ pendingEnds' = pendingEnds + (Len(queue) - Len(Cancel(queue)))

\* Play Audio button of an assistant message: disabled={speaking}
PlayAudio(i) ==
  /\ mounted
  /\ hasStarted /\ ~speaking
  /\ i \in 1..Len(messages)
  /\ messages[i].role = "assistant"
  /\ Speak(selectedVoice, speechRates[level], messages[i].content)
  /\ UNCHANGED <<allVoices, voices, selectedVoice, speaking, speakTimers,
                 nRefresh, speechLog>>
  /\ UNCHANGED appVars
  /\ UNCHANGED endpointVars

\* an auto-play timeout fires: speak of the render that made the call
SpeakTimerFire ==
  /\ speakTimers # <<>>
  /\ Speak(Head(speakTimers).voice, Head(speakTimers).rate,
           Head(speakTimers).text)
  /\ speakTimers' = Tail(speakTimers)
  /\ UNCHANGED <<allVoices, voices, selectedVoice, speaking, nRefresh, speechLog>>
  /\ UNCHANGED appVars
  /\ UNCHANGED endpointVars

\* utterance.onstart
UtteranceStart ==
  /\ queue # <<>> /\ ~Head(queue).started
  /\ queue' = <<[Head(queue) EXCEPT !.started = TRUE]>> \o Tail(queue)
  /\ speaking' = TRUE
  /\ UNCHANGED <<allVoices, voices, selectedVoice, pendingEnds, speakTimers,
                 nSpeaks, nRefresh, speechLog>>
  /\ UNCHANGED appVars
  /\ UNCHANGED endpointVars

\* utterance.onend
UtteranceEnd ==
  /\ queue # <<>> /\ Head(queue).started
  /\ queue' = Tail(queue)
  /\ speaking' = FALSE
  /\ UNCHANGED <<allVoices, voices, selectedVoice, pendingEnds, speakTimers,
                 nSpeaks, nRefresh, speechLog>>
  /\ UNCHANGED appVars
  /\ UNCHANGED endpointVars

ErrorKeepsSpeaking == speaking

\* setSpeaking(false) in utterance.onerror
ErrorSpeaking == FALSE

\* utterance.onerror of the utterance at the head of the queue; log is the
\* speech log after the event
OnError(log) ==
  /\ queue # <<>>
  /\ speechLog' = log
  /\ queue' = Tail(queue)
  /\ speaking' = ErrorSpeaking
  /\ UNCHANGED <<allVoices, voices, selectedVoice, pendingEnds, speakTimers,
                 nSpeaks, nRefresh>>
  /\ UNCHANGED appVars
  /\ UNCHANGED endpointVars

UtteranceError == OnError(speechLog)

\* the same event, counted in the log
SynthesisError ==
  /\ speechLog.errors < MaxErrors
  /\ OnError([speechLog EXCEPT !.errors = @ + 1])

StopKeepsSpeaking == speaking

\* setSpeaking(false) in stop
StopSpeaking == FALSE

\* stop(): window.speechSynthesis.cancel(); setSpeaking(false)
Stop ==
  /\ speechLog.stops < MaxStops
  /\ speechLog' = [speechLog EXCEPT !.stops = @ + 1, !.stopAt = nSpeaks]
  /\ queue' = Cancel(queue)
  /\ pendingEnds' = pendingEnds + (Len(queue) - Len(Cancel(queue)))
  /\ speaking' = StopSpeaking
  /\ UNCHANGED <<allVoices, voices, selectedVoice, speakTimers, nSpeaks,
                 nRefresh>>
  /\ UNCHANGED appVars
  /\ UNCHANGED endpointVars

\* onend / onerror of an utterance that cancel() removed
CancelledEvent ==
  /\ pendingEnds > 0
  /\ pendingEnds' = pendingEnds - 1
  /\ speaking' = FALSE
  /\ UNCHANGED <<allVoices, voices, selectedVoice, queue, speakTimers,
                 nSpeaks, nRefresh, speechLog>>
  /\ UNCHANGED appVars
  /\ UNCHANGED endpointVars

----------------------------------------------------------------------------
InitApp ==
  /\ messages = <<>>
  /\ input = <<>>
  /\ level = "beginner"
  /\ loading = FALSE
  /\ browserSupportsSpeechRecognition \in BOOLEAN
  /\ error = IF browserSupportsSpeechRecognition THEN NoError ELSE Unsupported
  /\ hasStarted = FALSE
  /\ wasListeningRef = FALSE
  /\ transcript = <<>>
  /\ listening = FALSE
  /\ engine = "off"
  /\ timer = NoTimer
  /\ timeouts = <<>>
  /\ mounted = TRUE
  /\ calls = <<>>
  /\ lastReq = [messages |-> <<>>, userLevel |-> "beginner",
                logAfter |-> <<>>]
  /\ nSessions = 0
  /\ nResults = 0
  /\ cycleFires = 0
  /\ cycleSends = 0
  /\ nLevels = 0

\* the hook after its mount effect ran loadVoices on the platform's list
InitSpeech(lists) ==
  /\ allVoices \in lists
  /\ voices = RussianVoices(allVoices)
  /\ selectedVoice = LoadVoices(allVoices, NoVoice)
  /\ speaking = FALSE
  /\ queue = <<>>
  /\ pendingEnds = 0
  /\ speakTimers = <<>>
  /\ nSpeaks = 0
  /\ nRefresh = 0
  /\ speechLog = [errors |-> 0, stops |-> 0, stopAt |-> 0]

InitEndpoint(backends) ==
  /\ ePc = "idle"
  /\ eReq = [method |-> "POST", hasKey |-> TRUE, userLevel |-> "beginner",
             history |-> 0]
  /\ ePrompt = NoPrompt
  /\ eBackend \in backends
  /\ eResp = [status |-> 0, body |-> NoBody]
  /\ eFetches = 0

NoBackend == [kind |-> "throw", text |-> <<>>]

Init == InitApp /\ InitEndpoint({NoBackend}) /\ InitSpeech({<<>>})

Next ==
  \/ StartConversation
  \/ \E i \in 1..MaxCalls, data \in Datas : StartConversationOk(i, data)
  \/ \E i \in 1..MaxCalls, e \in Errors : StartConversationFail(i, e)
  \/ ClickSend
  \/ HandleKeyPress
  \/ TimerFire
  \/ \E i \in 1..MaxCalls, data \in Datas : SendMessageOk(i, data)
  \/ \E i \in 1..MaxCalls, e \in Errors : SendMessageFail(i, e)
  \/ ToggleListening
  \/ \E t \in Texts : RecognitionResult(t)
  \/ RecognitionEnd
  \/ \E t \in Texts : TypeInput(t)

Spec == Init /\ [][Next]_vars

\* a pending fetch of /api/chat resolves or rejects
Settle ==
  \E i \in 1..MaxCalls :
    \/ \E data \in Datas : StartConversationOk(i, data) \/ SendMessageOk(i, data)
    \/ \E e \in Errors : StartConversationFail(i, e) \/ SendMessageFail(i, e)

\* the same client, with every pending fetch settling eventually
SpecSettling == Spec /\ WF_vars(Settle)

NextEndpoint ==
  \/ \E method \in {"POST", "OPTIONS"}, hasKey \in BOOLEAN,
        lvl \in RequestLevels, history \in HistoryLengths :
       OnRequest(method, hasKey, lvl, history)
  \/ OnBackend

BackendOutcomes ==
  { BackendOk(p \o b \o x) : p \in Prefixes, b \in Bodies, x \in Suffixes }
    \cup BackendFailures

InitServer ==
  /\ InitApp
  /\ browserSupportsSpeechRecognition = TRUE
  /\ InitEndpoint(BackendOutcomes)
  /\ InitSpeech({<<>>})

SpecEndpoint == InitServer /\ [][NextEndpoint]_vars

(* The whole client: conversation, recognition, level selector, speech *)
InitTutor ==
  /\ InitApp
  /\ InitEndpoint({NoBackend})
  /\ InitSpeech(TutorVoiceLists)

\* what is typed and recognised while the whole client runs
TutorTyped == { <<"a">> }
TutorHeard == { <<"a">>, <<"b", " ">> }
TutorSessions == 1

\* the microphone button, used for TutorSessions sessions
TutorToggleListening ==
  /\ listening \/ nSessions < TutorSessions
  /\ ToggleListening

NextTutor ==
  \/ StartConversation
  \/ \E i \in 1..MaxCalls, data \in Datas : StartConversationOk(i, data)
  \/ \E i \in 1..MaxCalls, e \in Errors : StartConversationFail(i, e)
  \/ ClickSend
  \/ HandleKeyPress
  \/ TimerFire
  \/ \E i \in 1..MaxCalls, data \in Datas : SendMessageOk(i, data)
  \/ \E i \in 1..MaxCalls, e \in Errors : SendMessageFail(i, e)
  \/ TutorToggleListening
  \/ \E t \in TutorHeard : RecognitionResult(t)
  \/ RecognitionEnd
  \/ \E t \in TutorTyped : TypeInput(t)
  \/ \E lvl \in Levels : SetLevel(lvl)
  \/ \E i \in 1..(2 * MaxCalls) : PlayAudio(i)
  \/ SpeakTimerFire
  \/ UtteranceStart
  \/ UtteranceEnd
  \/ UtteranceError
  \/ CancelledEvent

SpecTutor == InitTutor /\ [][NextTutor]_vars

(* The conversation and recognition, with the component's teardown *)
NextTeardown ==
  \/ Next
  \/ Unmount

SpecTeardown == Init /\ [][NextTeardown]_vars

(* Typed conversation with playback: the speech hook with its stop(), on a *)
(* platform without recognition support                                   *)
InitSpeaking ==
  /\ InitApp
  /\ browserSupportsSpeechRecognition = FALSE
  /\ InitEndpoint({NoBackend})
  /\ InitSpeech(TutorVoiceLists)

NextSpeaking ==
  \/ StartConversation
  \/ \E i \in 1..MaxCalls, data \in Datas : StartConversationOk(i, data)
  \/ \E i \in 1..MaxCalls, e \in Errors : StartConversationFail(i, e)
  \/ ClickSend
  \/ \E i \in 1..MaxCalls, data \in Datas : SendMessageOk(i, data)
  \/ \E i \in 1..MaxCalls, e \in Errors : SendMessageFail(i, e)
  \/ \E t \in TutorTyped : TypeInput(t)
  \/ \E i \in 1..(2 * MaxCalls) : PlayAudio(i)
  \/ SpeakTimerFire
  \/ UtteranceStart
  \/ UtteranceEnd
  \/ SynthesisError
  \/ CancelledEvent
  \/ Stop

SpecSpeaking == InitSpeaking /\ [][NextSpeaking]_vars

(* Voice loading alone *)
InitVoices ==
  /\ InitApp
  /\ browserSupportsSpeechRecognition = TRUE
  /\ InitEndpoint({NoBackend})
  /\ InitSpeech(VoiceLists)

NextVoices == \E all \in VoiceLists : VoicesChanged(all)

SpecVoices == InitVoices /\ [][NextVoices]_vars

----------------------------------------------------------------------------
(* Claims about the App component *)

\* C1: send is single-flight: at most one backend call is in flight at any
\* time, whatever the interleaving of send triggers and completions.
C1_SingleFlight == Cardinality(InFlight) <= 1

\* C2: once the auto-send timer of a listen-then-silence cycle has fired,
\* exactly one send has been triggered by it.
C2_AutoSendOnce == cycleFires >= 1 => cycleSends = 1

IsTimerFire == timer.armed /\ cycleFires' = cycleFires + 1

\* C3: when the auto-send timer fires with transcript T, exactly one user
\* message with content trim(T) is appended and exactly one backend call is
\* made whose last history entry is that message.
C3_AutoSendContent ==
  [][IsTimerFire =>
       /\ messages' = Append(messages, UserMessage(transcript))
       /\ Len(calls') = Len(calls) + 1
       /\ lastReq'.messages # <<>>
       /\ lastReq'.messages[Len(lastReq'.messages)] =
            [role |-> "user", content |-> Trim(transcript)]]_vars

\* C4: the history of every send's request is the message log as it stands
\* when the send is accepted, followed by the new user message.
C4_HistoryIsLog ==
  (calls # <<>> /\ calls[Len(calls)].kind = "send")
    => lastReq.messages = RoleContent(lastReq.logAfter)

IsFailure ==
  \E i \in 1..Len(calls) :
    calls[i].status = "inflight" /\ calls'[i].status = "fail"

\* C10: when a backend call fails, no message is appended, the error value
\* is set, loading is cleared and no backend call is started; the Send
\* button's loading guard no longer blocks the user.
C10_FailureHandling ==
  [][IsFailure =>
       /\ messages' = messages
       /\ error' \in Errors
       /\ loading' = FALSE
       /\ calls' = [i \in 1..Len(calls) |->
                      IF calls[i] = calls'[i] THEN calls[i]
                      ELSE [calls[i] EXCEPT !.status = "fail"]]
       /\ lastReq' = lastReq]_vars

\* C10 witness: a call failed and a later send was accepted
C10_Witness ==
  \E i, j \in 1..Len(calls) :
    /\ i < j
    /\ calls[i].status = "fail"
    /\ calls[j].kind = "send"

----------------------------------------------------------------------------
(* Claims about the /api/chat endpoint *)

Served == ePc = "done" /\ eFetches = 1
Parseable(text) == JsonParse(CleanedText(text))[1]

HasShape(v) ==
  /\ v.kind = "object"
  /\ v.keys = AllKeys
  /\ v.russian # Null

\* C5: every success response to a POST has the TutorResponse shape.
C5_ResponseShape ==
  (ePc = "done" /\ eReq.method = "POST" /\ eResp.status = 200)
    => HasShape(eResp.body)

\* C6: backend text that does not parse after fence stripping is answered
\* with the raw text in russian and null in the other three fields.
C6_Fallback ==
  (Served /\ eBackend.kind = "ok" /\ ~Parseable(eBackend.text))
    => eResp = [status |-> 200,
                body |-> [kind |-> "object", keys |-> AllKeys,
                          russian |-> eBackend.text,
                          english_feedback |-> Null,
                          transliteration |-> Null,
                          topic_alignment |-> Null]]

\* C6 witness: an unparseable text with fences in it has been answered
C6_Witness ==
  /\ Served /\ eBackend.kind = "ok"
  /\ ~Parseable(eBackend.text)
  /\ CleanedText(eBackend.text) # eBackend.text
  /\ eResp.body.russian = eBackend.text

FenceOpen == { <<"BT">>, <<"BT", "JS">>, <<"BT", "NL">>, <<"BT", "JS", "NL">> }
FenceClose == { <<"BT">>, <<"NL", "BT">> }

\* C7: valid JSON wrapped in code-fence markers, with or without the json
\* tag, is answered with the embedded JSON value.
C7_FencedJson ==
  (Served /\ eBackend.kind = "ok")
    => \A p \in FenceOpen, b \in Bodies, x \in FenceClose :
         (eBackend.text = p \o b \o x /\ JsonParse(b)[1])
           => eResp = [status |-> 200, body |-> JsonParse(b)[2]]

C9_TransportFailure ==
  (ePc = "done" /\ eFetches >= 1 /\ eBackend.kind \in {"notok", "throw"})
    => /\ eResp.status = 500
       /\ eResp.body.kind = "error"
       /\ eResp.body.keys = {"error", "details"}
       /\ eResp.body.keys \cap AllKeys = {}
       /\ eFetches = 1

\* C9 witness: the backend answered with a non-success status
C9_Witness ==
  /\ Served /\ eBackend.kind = "notok"
  /\ eResp.status = 500

----------------------------------------------------------------------------
(* Claims about ordering, the level selector and speech synthesis *)

IsReply(i) ==
  /\ i \in 1..Len(calls)
  /\ calls[i].status = "inflight"
  /\ calls'[i].status = "ok"

\* C11: every reply is appended after the user message of its request and
\* before the user message of any later accepted send, and the synthesis of
\* a reply is scheduled only in a step that has appended that reply.
C11_SendReceiveOrder ==
  [][/\ \A i \in 1..MaxCalls :
          IsReply(i) =>
            /\ i = Len(calls)
            /\ calls[i].kind = "send" =>
                  \E k \in 1..Len(messages) :
                    /\ messages[k].role = "user"
                    /\ messages[k].content =
                         lastReq.messages[Len(lastReq.messages)].content
     /\ Len(speakTimers') > Len(speakTimers) =>
          /\ Len(messages') >= 1
          /\ messages' # messages
          /\ messages'[Len(messages')].role = "assistant"
          /\ messages'[Len(messages')].content =
               speakTimers'[Len(speakTimers')].text]_vars

IsPrefix(a, b) == Len(a) <= Len(b) /\ SubSeq(b, 1, Len(a)) = a

\* C12: the message log is append-only: in every step of every operation the
\* log before the step is a prefix of the log after it.
C12_AppendOnly == [][IsPrefix(messages, messages')]_vars

\* C12 witness: the log holds the welcome, a user message and a reply, after
\* a level change, a recognition session and a speak call
C12_Witness ==
  /\ Len(messages) >= 3
  /\ nLevels >= 1
  /\ nSessions >= 1
  /\ nSpeaks >= 1

\* C13: at most one utterance is held by the synthesis engine at any time,
\* and every speak call that creates an utterance leaves exactly that
\* utterance, not yet started, in the engine (last call wins, no queue).
C13_OneUtterance ==
  /\ [](Len(queue) <= 1)
  /\ [][(nSpeaks' # nSpeaks /\ queue' # queue) =>
          /\ Len(queue') = 1
          /\ queue'[1].id = nSpeaks'
          /\ ~queue'[1].started]_vars

\* C13 witness: a second speak call ran while the first utterance was in the
\* engine and replaced it
C13_Witness ==
  /\ nSpeaks = 2
  /\ pendingEnds >= 1
  /\ Len(queue) = 1
  /\ queue[1].id = 2

\* C14: a speak call made while no voice is selected creates no utterance,
\* cancels nothing and leaves the speaking flag as it is.
C14_NoVoiceNoOp ==
  [][(nSpeaks' # nSpeaks /\ selectedVoice = NoVoice) =>
       UNCHANGED <<queue, pendingEnds, speaking>>]_vars

\* C14 witness: Play Audio was clicked on a reply while no voice is selected
C14_Witness ==
  /\ selectedVoice = NoVoice
  /\ nSpeaks >= 1
  /\ Len(messages) >= 1
  /\ queue = <<>>

\* C15: every utterance created by a speak call that ran after a level
\* change carries the rate of the level current when that call ran.
C15_RateOfCurrentLevel ==
  \A k \in 1..Len(queue) :
    queue[k].afterSetLevel => queue[k].rate = speechRates[queue[k].level]

\* C16: every backend request carries as userLevel the level current when
\* its send or startConversation is accepted.
C16_RequestLevel ==
  [][Len(calls') > Len(calls) => lastReq'.userLevel = level]_vars

\* C17: a level change changes the level and nothing else: the log, the
\* pending input, the in-flight flag and calls, the error value, the
\* recognition state, the timers and the synthesis state stay as they are.
C17_SetLevelFrame ==
  [][nLevels' # nLevels =>
       /\ level' # level
       /\ UNCHANGED <<messages, input, loading, error, hasStarted, mounted, calls,
                      lastReq, transcript, listening, wasListeningRef, timer, timeouts,
                      engine, selectedVoice, voices, speaking, queue,
                      pendingEnds, speakTimers>>]_vars

\* C17 witness: the level was changed while a call was in flight and an
\* utterance was playing
C17_Witness ==
  /\ \E i \in InFlight : calls[i].level # level
  /\ Len(queue) = 1 /\ queue[1].started /\ queue[1].level # level
  /\ speaking
  /\ Len(messages) >= 2

----------------------------------------------------------------------------
(* Claims about voice selection *)

Permutations(s) ==
  { [i \in 1..Len(s) |-> s[f[i]]] :
      f \in { g \in [1..Len(s) -> 1..Len(s)] :
                \A i, j \in 1..Len(s) : g[i] = g[j] => i = j } }

\* C18: the selection is the same for every ordering of the same voices.
C18_OrderIndependent ==
  voices # <<>> =>
    \A q \in Permutations(voices) : PreferredVoice(q) = selectedVoice

\* the spellings of each rule's keyword
Spellings ==
  [google |-> {"google", "Google", "GOOGLE"},
   microsoft |-> {"microsoft", "Microsoft", "MICROSOFT"},
   yandex |-> {"yandex", "Yandex", "YANDEX"},
   irina |-> {"irina", "Irina", "IRINA"},
   pavel |-> {"pavel", "Pavel", "PAVEL"},
   milena |-> {"milena", "Milena", "MILENA"},
   yuri |-> {"yuri", "Yuri", "YURI"}]

RuleOrder ==
  <<"google", "microsoft", "yandex", "irina", "pavel", "milena", "yuri">>

MatchesRule(v, k) ==
  \E j \in 1..Len(v.name) : v.name[j] \in Spellings[RuleOrder[k]]

MatchedRules ==
  { k \in 1..Len(RuleOrder) :
      \E i \in 1..Len(voices) : MatchesRule(voices[i], k) }

\* C19: for a non-empty list of Russian voices the selected voice is one of
\* the list that matches the highest-priority rule matched by any voice of
\* the list; when no rule is matched it is the first voice of the list.
C19_PriorityRules ==
  voices # <<>> =>
    /\ \E i \in 1..Len(voices) : selectedVoice = voices[i]
    /\ IF MatchedRules = {}
       THEN selectedVoice = voices[1]
       ELSE \E k \in MatchedRules :
              /\ \A m \in MatchedRules : k <= m
              /\ MatchesRule(selectedVoice, k)

\* C19 witness: a voice later in the list, matching a higher rule in upper
\* case, was selected over the first voice, which matches a lower rule
C19_Witness ==
  /\ Len(voices) >= 2
  /\ voices[1] = Voice(<<"Pavel">>, RuRU)
  /\ selectedVoice = Voice(<<"x", "MICROSOFT">>, RuRU)
  /\ selectedVoice # voices[1]

\* C20: after every refresh whose Russian voice set is empty, no voice is
\* selected.
C20_EmptyClearsSelection ==
  voices = <<>> => selectedVoice = NoVoice

----------------------------------------------------------------------------
(* Claims about replies, recognition support and playback *)

ReplyMessage(data) ==
  [role |-> "assistant", content |-> data.russian,
   feedback |-> data.english_feedback,
   transliteration |-> data.transliteration, topic |-> data.topic_alignment]

\* C21: when a call succeeds with response R, one assistant message with
\* R's four fields is appended, and synthesis of R.russian is scheduled, with
\* the rate of the current level, exactly when a voice is selected then.
C21_ReplyAndAutoPlay ==
  [][\A i \in 1..MaxCalls :
       IsReply(i) =>
         \E data \in Datas :
           /\ messages' = Append(messages, ReplyMessage(data))
           /\ IF selectedVoice # NoVoice
              THEN /\ Len(speakTimers') = Len(speakTimers) + 1
                   /\ speakTimers'[Len(speakTimers')].text = data.russian
                   /\ speakTimers'[Len(speakTimers')].rate = speechRates[level]
              ELSE speakTimers' = speakTimers]_vars

\* C22: on a platform without recognition support listening never becomes
\* true, no recognition session starts, no auto-send timer is armed, and a
\* typed send is accepted whenever the Send button is not disabled.
C22_NoRecognitionSupport ==
  ~browserSupportsSpeechRecognition =>
    /\ ~listening
    /\ engine = "off"
    /\ nSessions = 0
    /\ ~timer.armed
    /\ ~wasListeningRef
    /\ (hasStarted /\ ~loading /\ Trim(input) # <<>> /\ Len(calls) < MaxCalls)
         => ENABLED ClickSend

\* C22 witness: without recognition support a typed send was accepted and
\* answered
C22_Witness ==
  /\ ~browserSupportsSpeechRecognition
  /\ \E i \in 1..Len(calls) : calls[i].kind = "send" /\ calls[i].status = "ok"

\* C23: a synthesis error sets speaking to false and changes nothing of the
\* conversation: log, input, in-flight flag and calls, error value, timers.
C23_SynthesisError ==
  [][speechLog'.errors # speechLog.errors =>
       /\ speaking' = FALSE
       /\ UNCHANGED <<messages, input, level, loading, error, hasStarted, mounted,
                      calls, lastReq, timer, timeouts, speakTimers, selectedVoice,
                      voices, pendingEnds, nSpeaks>>]_vars

\* C23 witness: an utterance failed while a backend call was in flight and
\* playback is idle
C23_Witness ==
  /\ speechLog.errors >= 1
  /\ ~speaking /\ queue = <<>>
  /\ loading /\ InFlight # {}

\* C24: stop() empties the engine and sets speaking to false in the same
\* step; after a stop, speaking turns true only when an utterance created by
\* a later speak call starts.
C24_StopIdle ==
  /\ [][speechLog'.stops # speechLog.stops =>
          /\ queue' = <<>>
          /\ speaking' = FALSE]_vars
  /\ [][(speechLog.stops > 0 /\ ~speaking /\ speaking') =>
          /\ queue # <<>>
          /\ Head(queue).id > speechLog.stopAt
          /\ ~Head(queue).started
          /\ Head(queue').started]_vars

\* C24 witness: stop() cancelled an utterance that was in the engine
C24_Witness ==
  /\ speechLog.stops >= 1
  /\ speechLog.stopAt >= 1
  /\ nSpeaks = speechLog.stopAt
  /\ pendingEnds >= 1
  /\ queue = <<>> /\ ~speaking

IsStart == ~listening /\ listening'

IsToggleStop == engine = "on" /\ engine' = "stopping"

\* C26: a start of recognition leaves transcript and input empty and no
\* timer pending, and until the new session hears something they stay so
\* (nothing of an earlier session is left to send); a toggle while listening
\* stops recognition, keeps transcript and input, and starts no session.
C26_StartClears ==
  /\ [][IsStart =>
          /\ transcript' = <<>>
          /\ input' = <<>>
          /\ ~timer'.armed]_vars
  /\ []((listening /\ nResults = 0) =>
          (transcript = <<>> /\ input = <<>> /\ ~timer.armed))
  /\ [][IsToggleStop =>
          /\ listening /\ ~listening'
          /\ transcript' = transcript
          /\ input' = input
          /\ nSessions' = nSessions]_vars

\* C26 witness: a second session has started, with a user message of the
\* first in the log and nothing heard yet
C26_Witness ==
  /\ nSessions = 2
  /\ listening /\ nResults = 0
  /\ \E k \in 1..Len(messages) : messages[k].role = "user"

IsSend ==
  /\ Len(calls') > Len(calls)
  /\ calls'[Len(calls')].kind = "send"

\* C27: a send whose text is empty or blank has no effect: a step taken
\* while the input is blank starts no send (unless the auto-send timer runs
\* its own, older text), and the timer's callback with blank text leaves
\* log, calls, input, transcript, in-flight flag and error value unchanged.
C27_BlankRejected ==
  /\ [][(Trim(input) = <<>> /\ ~IsTimerFire) =>
          /\ ~IsSend
          /\ ~(/\ Len(messages') > Len(messages)
               /\ messages'[Len(messages')].role = "user")]_vars
  /\ [][(IsTimerFire /\ Trim(timer.input) = <<>>) =>
          UNCHANGED <<messages, calls, lastReq, input, transcript, loading,
                      error>>]_vars
  /\ [][IsSend =>
          Trim(lastReq'.messages[Len(lastReq'.messages)].content) # <<>>]_vars

\* C27 witness: the timer's callback ran with blank text while the input
\* held text, and nothing was sent
C27_Witness ==
  /\ cycleFires >= 1 /\ cycleSends = 0
  /\ Trim(input) # <<>>
  /\ ~loading

----------------------------------------------------------------------------
(* Claims about the endpoint's prompt and about loading and playback flags *)

LevelBlocks ==
  [beginner |-> [context |-> "BEGINNER", speed |-> 75],
   foundation |-> [context |-> "FOUNDATION", speed |-> 90],
   higher |-> [context |-> "HIGHER", speed |-> 110]]

\* C28: for userLevel beginner, foundation or higher the instruction block
\* and the recommended rate sent to the backend are those of that level in
\* the fixed table, whatever the history, the backend's answer or anything
\* else in the request.
C28_PromptLookup ==
  (eFetches = 1 /\ eReq.userLevel \in Levels)
    => ePrompt = LevelBlocks[eReq.userLevel]

\* C28 witness: a foundation request with history was served with the
\* foundation block
C28_Witness ==
  /\ Served
  /\ eReq.userLevel = "foundation" /\ eReq.history = 1
  /\ ePrompt.speed = 90 /\ ePrompt.context = "FOUNDATION"
  /\ eBackend.kind = "ok"

IsSettled(i) ==
  /\ i \in 1..Len(calls)
  /\ calls[i].status = "inflight"
  /\ calls'[i].status # "inflight"

\* C29: when a backend call resolves or rejects, loading is false after that
\* step; loading is never true with no call pending; and, calls settling
\* eventually, loading always returns to false.
C29_LoadingReturns ==
  /\ [][\A i \in 1..MaxCalls : IsSettled(i) => ~loading']_vars
  /\ [](InFlight = {} => ~loading)
  /\ (loading ~> ~loading)

\* C29 witness: one call has succeeded, one has failed, and loading is false
C29_Witness ==
  /\ \E i \in 1..Len(calls) : calls[i].status = "ok"
  /\ \E i \in 1..Len(calls) : calls[i].status = "fail"
  /\ InFlight = {}
  /\ ~loading

Quiescent ==
  /\ pendingEnds = 0
  /\ queue = <<>> \/ Head(queue).started

\* C30: once every pending utterance event has been delivered, speaking is
\* true exactly when the engine holds an utterance.
C30_SpeakingAgrees ==
  Quiescent => (speaking <=> queue # <<>>)

IsDepsChange == listening' # listening \/ transcript' # transcript

\* C31: the browser never holds more than one auto-send timeout, and the
\* one it holds is the one the effect's cleanup will clear; after any
\* change of listening or of the transcript the only timeout it can hold is
\* the one armed for the new values, every earlier one being cancelled; and
\* after the component's teardown it holds none.
C31_OneTimer ==
  /\ [](Len(timeouts) <= 1)
  /\ [](timeouts = IF timer.armed THEN <<timer>> ELSE <<>>)
  /\ [][IsDepsChange =>
          \/ timeouts' = <<>>
          \/ /\ Len(timeouts') = 1
             /\ timeouts'[1].transcript = transcript'
             /\ ~listening']_vars
  /\ [](~mounted => timeouts = <<>>)

\* C31 witness: the component was torn down after a stopped session heard
\* two results and before its timer fired: the flag is still set and the
\* transcript still there, and the timeout is gone
C31_Witness ==
  /\ ~mounted
  /\ timeouts = <<>>
  /\ wasListeningRef /\ ~listening
  /\ Trim(transcript) # <<>>
  /\ nResults = 2

IsCallStart == Len(calls') > Len(calls)

\* C32: listening and the in-flight flag are never both true; recognition
\* is not started while a backend call is in flight; and no send, manual or
\* by the timer, starts a backend call while listening is true.
C32_Exclusion ==
  /\ [](~(listening /\ loading))
  /\ [][IsStart => InFlight = {}]_vars
  /\ [][IsCallStart => (~listening /\ ~listening')]_vars

====
